---------------------------- MODULE Spec2Model ----------------------------
(***************************************************************************)
(* Model of tests_appels_api.py: the OAuth token acquisition               *)
(* (obtenir_token_legifrance), the search client (recherche_legifrance)    *)
(* and the result extractor (extraire_resultats) of the Legifrance client. *)
(*                                                                         *)
(* Python values are tagged records, so that None, strings, lists and      *)
(* dicts can be compared with one another.  A dict is a function whose     *)
(* DOMAIN is the set of keys present.  The HTTP servers are the            *)
(* environment: every request is answered by a nondeterministic outcome    *)
(* (a network-level error, or a status with a body).                       *)
(***************************************************************************)
EXTENDS Integers, Sequences, FiniteSets, TLC

VARIABLES
    call,       \* the function the caller invoked
    args,       \* the arguments of recherche_legifrance (lines 92-102)
    pc,         \* position of the running invocation
    token,      \* the local variable token of recherche_legifrance
    headers,    \* the local variable headers of recherche_legifrance
    payload,    \* the local variable payload of recherche_legifrance
    sent,       \* the HTTP requests sent so far, in order
    response,   \* the outcome of the last HTTP request of the invoked function
    result,     \* how the invoked function ended: a return value or an exception
    resultats,  \* the argument of extraire_resultats
    extraits    \* how extraire_resultats ended

vars == <<call, args, pc, token, headers, payload, sent, response, result,
          resultats, extraits>>

-----------------------------------------------------------------------------
(* Bounds of the model.                                                    *)

\* Longest filtres list a caller passes.
MaxFiltres == 2
\* Longest "results" list of a search response given to the extractor.
MaxRecords == 2

-----------------------------------------------------------------------------
(* Python values.                                                          *)

None == [t |-> "None"]
Str(s) == [t |-> "str", v |-> s]
List(l) == [t |-> "list", v |-> l]
Dict(d) == [t |-> "dict", v |-> d]
\* A response body that is not JSON: response.json() raises on it.
NotJson == [t |-> "notjson"]

EmptyDict == [k \in {} |-> None]

\* Python truthiness, as used by `if not token`, `if query`, `if filtres`
\* and `not resultats`.
Truthy(x) ==
    CASE x.t = "None" -> FALSE
      [] x.t = "str"  -> x.v # ""
      [] x.t = "list" -> x.v # << >>
      [] x.t = "dict" -> DOMAIN x.v # {}

\* str(x), as the f-string f"Bearer {token}" formats its argument.
PyStr(x) == IF x.t = "None" THEN "None" ELSE x.v

\* How a call ends.
Return(v) == [kind |-> "return", value |-> v]
Raise(e) == [kind |-> "raise", value |-> Str(e)]
Pending == [kind |-> "pending", value |-> None]

\* Outcomes of requests.post: a network-level exception or a response.
NetworkError == [kind |-> "error", status |-> 0, body |-> NotJson]
Response(s, b) == [kind |-> "response", status |-> s, body |-> b]
NoResponse == [kind |-> "none", status |-> 0, body |-> NotJson]


-----------------------------------------------------------------------------
(* The two endpoints (lines 12-13).                                        *)

LEGIFRANCE_BASE_URL ==
    "https://sandbox-api.piste.gouv.fr/dila/legifrance/lf-engine-app"

LEGIFRANCE_OAUTH_URL == "https://sandbox-oauth.piste.gouv.fr/api/oauth/token"

\* f"{LEGIFRANCE_BASE_URL}/search" (line 163).
SearchUrl == LEGIFRANCE_BASE_URL \o "/search"

-----------------------------------------------------------------------------
(* The environment: what the two endpoints may answer.                     *)

\* Status codes: 200, another 2xx, a 3xx, a 4xx and a 5xx.
Statuses == {200, 201, 302, 404, 500}

\* Bodies of the token endpoint: not JSON, a JSON object without
\* access_token, and JSON objects with an access_token.
TokenBodies ==
    { NotJson,
      Dict([error |-> Str("invalid_client")]),
      Dict([access_token |-> Str("tokS")]),
      Dict([access_token |-> Str("tokT"), token_type |-> Str("Bearer")]) }

TokenOutcomes ==
    {NetworkError} \cup {Response(s, b) : s \in Statuses, b \in TokenBodies}

\* A raw record of a search response, as a dict.
RecordLoi == [nature |-> "LOI", date |-> "2020-01-01"]

\* Bodies of the search endpoint: not JSON, the empty object, an object
\* without "results", and an object with a "results" list.
SearchBodies ==
    { NotJson,
      Dict(EmptyDict),
      Dict([message |-> Str("Unauthorized")]),
      Dict([results |-> <<RecordLoi>>]) }

SearchOutcomes ==
    {NetworkError} \cup {Response(s, b) : s \in Statuses, b \in SearchBodies}

-----------------------------------------------------------------------------
(* obtenir_token_legifrance (lines 15-36), as a function of the outcome of *)
(* its one requests.post (line 30), which no try block surrounds.          *)

\* response.json()["access_token"] (line 33).
AccessTokenOf(body) ==
    IF body = NotJson THEN Raise("JSONDecodeError")
    ELSE IF body.t # "dict" THEN Raise("TypeError")
    ELSE IF "access_token" \notin DOMAIN body.v THEN Raise("KeyError")
    ELSE Return(body.v.access_token)

\* A variant that takes every 2xx status for a success.
ObtenirTokenLegifrance_Any2xx(outcome) ==
    IF outcome.kind = "error" THEN Raise("ConnectionError")
    ELSE IF outcome.status \in 200..299 THEN AccessTokenOf(outcome.body)
    ELSE Return(None)

ObtenirTokenLegifrance(outcome) ==
    IF outcome.kind = "error" THEN Raise("ConnectionError")
    ELSE IF outcome.status = 200 THEN AccessTokenOf(outcome.body)
    ELSE Return(None)

\* The form-encoded request of lines 17-30 (the credentials are left out).
TokenRequest ==
    [ url     |-> LEGIFRANCE_OAUTH_URL,
      headers |-> ("Content-Type" :> "application/x-www-form-urlencoded"),
      data    |-> [grant_type |-> "client_credentials", scope |-> "openid"] ]

-----------------------------------------------------------------------------
(* extraire_resultats (lines 202-229).  A raw record is a dict, given as   *)
(* the function from the keys present to their values; strings and lists   *)
(* inside a record are plain strings and sequences.                        *)

\* resultat.get("titles", [{}])[0].get("title", "Sans titre")
\*     if "titles" in resultat else "Sans titre"            (line 210)
\* Indexing an empty list raises IndexError.
TitreOf(r) ==
    IF "titles" \in DOMAIN r
    THEN IF r.titles = << >> THEN Raise("IndexError")
         ELSE Return(IF "title" \in DOMAIN r.titles[1]
                     THEN r.titles[1].title ELSE "Sans titre")
    ELSE Return("Sans titre")

\* The second argument of resultat.get("id", ...) (line 213), which Python
\* evaluates before the call, whether or not the record has an id.
IdFallbackOf(r) ==
    IF "titles" \in DOMAIN r
    THEN IF r.titles = << >> THEN Raise("IndexError")
         ELSE Return(IF "id" \in DOMAIN r.titles[1]
                     THEN Str(r.titles[1].id) ELSE None)
    ELSE Return(None)

\* resultat.get("id", <fallback>) (line 213).
IdOf(r) ==
    LET fb == IdFallbackOf(r)
    IN  IF fb.kind = "raise" THEN fb
        ELSE IF "id" \in DOMAIN r THEN Return(Str(r.id)) ELSE fb

\* resultat.get("nature", "Non spécifiée") (line 211).
NatureOf(r) == IF "nature" \in DOMAIN r THEN r.nature ELSE "Non spécifiée"

\* resultat.get("date", "Date inconnue") (line 212).
DateOf(r) == IF "date" \in DOMAIN r THEN r.date ELSE "Date inconnue"

\* The dict appended for one extract (lines 221-225).
ExtraitOf(extract) ==
    [ article |-> IF "num" \in DOMAIN extract THEN extract.num ELSE "Non numéroté",
      texte   |-> IF "values" \in DOMAIN extract /\ extract.values # << >>
                  THEN extract.values[1] ELSE "",
      id      |-> IF "id" \in DOMAIN extract THEN extract.id ELSE "" ]

\* The inner loop over section["extracts"] (lines 220-225).
RECURSIVE ExtractsLoop(_)
ExtractsLoop(extracts) ==
    IF extracts = << >> THEN << >>
    ELSE <<ExtraitOf(Head(extracts))>> \o ExtractsLoop(Tail(extracts))

\* The loop over resultat["sections"] (lines 218-225).
RECURSIVE SectionsLoop(_)
SectionsLoop(sections) ==
    IF sections = << >> THEN << >>
    ELSE (IF "extracts" \in DOMAIN Head(sections)
          THEN ExtractsLoop(Head(sections).extracts) ELSE << >>)
         \o SectionsLoop(Tail(sections))

\* item["extraits"] after lines 214-225.
ExtraitsOf(r) ==
    IF "sections" \in DOMAIN r THEN SectionsLoop(r.sections) ELSE << >>

\* One iteration of the loop of line 208: the item appended, or the
\* exception raised while the dict of lines 209-215 is evaluated.
ItemOf(r) ==
    LET titre == TitreOf(r)
        id == IdOf(r)
    IN  IF titre.kind = "raise" THEN titre
        ELSE IF id.kind = "raise" THEN id
        ELSE Return([ titre    |-> titre.value,
                      nature   |-> NatureOf(r),
                      date     |-> DateOf(r),
                      id       |-> id.value,
                      extraits |-> ExtraitsOf(r) ])

\* The loop of lines 207-229 over the records left, extraits being the
\* items appended so far.
RECURSIVE ResultsLoop(_, _)
ResultsLoop(records, acc) ==
    IF records = << >> THEN Return(List(acc))
    ELSE LET item == ItemOf(Head(records))
         IN  IF item.kind = "raise" THEN item
             ELSE ResultsLoop(Tail(records), Append(acc, item.value))

\* The guard of line 204: not resultats or "results" not in resultats.
NoResults(res) ==
    IF ~Truthy(res) THEN TRUE ELSE "results" \notin DOMAIN res.v

\* A variant whose guard is only `"results" not in resultats`, which raises
\* TypeError on None.
ExtraireResultats_NoneUnguarded(res) ==
    IF res.t = "None" THEN Raise("TypeError")
    ELSE IF "results" \notin DOMAIN res.v THEN Return(List(<< >>))
    ELSE ResultsLoop(res.v.results, << >>)

ExtraireResultats(res) ==
    IF NoResults(res) THEN Return(List(<< >>))
    ELSE ResultsLoop(res.v.results, << >>)

-----------------------------------------------------------------------------
(* recherche_legifrance (lines 92-170).                                    *)

\* headers["Authorization"] (line 124).
Authorization(tok) == "Bearer " \o PyStr(tok)

\* A variant whose criterion always asks for an exact match, as the payload
\* of test_ping_api does.
Champs_ExactOnly(a) ==
    << [ typeChamp |-> a.type_champ,
         criteres  |-> << [ typeRecherche |-> "EXACTE",
                            valeur        |-> a.query.v,
                            operateur     |-> "ET" ] >>,
         operateur |-> "ET" ] >>

\* payload["recherche"]["champs"] (lines 142-154).
Champs(a) ==
    << [ typeChamp |-> a.type_champ,
         criteres  |-> << [ typeRecherche |-> a.type_recherche,
                            valeur        |-> a.query.v,
                            operateur     |-> "ET" ] >>,
         operateur |-> "ET" ] >>

\* The base of payload["recherche"] (lines 131-136); values are tagged
\* because the entries of one dict differ in type.
RechercheBase(a) ==
    [ pageNumber     |-> [t |-> "int", v |-> a.page],
      pageSize       |-> [t |-> "int", v |-> a.page_size],
      sort           |-> Str(a.tri),
      typePagination |-> Str("DEFAUT") ]

\* The free-text block, added under `if query:` (lines 141-155).
RechercheQuery(a) ==
    IF Truthy(a.query)
    THEN [champs |-> List(Champs(a)), operateur |-> Str("ET")]
    ELSE EmptyDict

\* A variant that adds every list given, the empty one too.
RechercheFiltres_IsNotNone(a) ==
    IF a.filtres # None THEN [filtres |-> a.filtres] ELSE EmptyDict

\* The filters, added under `if filtres:` (lines 158-159).
RechercheFiltres(a) ==
    IF Truthy(a.filtres) THEN [filtres |-> a.filtres] ELSE EmptyDict

\* The payload of lines 130-159.
Payload(a) ==
    [ recherche |-> RechercheFiltres(a) @@ RechercheQuery(a) @@ RechercheBase(a),
      fond      |-> a.fond ]

\* The headers of lines 123-127.
Headers(tok) ==
    ("Authorization" :> Authorization(tok))
        @@ ("Content-Type" :> "application/json")
        @@ ("accept" :> "application/json")

\* The request of line 163: requests.post(url, headers=headers, json=payload).
SearchRequest(h, p) == [url |-> SearchUrl, headers |-> h, json |-> p]

\* response.raise_for_status() (line 164) raises HTTPError for 4xx and 5xx.
RaisesForStatus(status) == 400 <= status /\ status < 600

\* Lines 162-170, given the outcome of the post of line 163.  A body that is
\* not JSON makes response.json() raise; whether that exception is a
\* RequestException (and so caught at line 166) depends on the installed
\* requests library: jsonErrorCaught says which.
SearchResult(outcome, jsonErrorCaught) ==
    IF outcome.kind = "error" THEN Return(None)
    ELSE IF RaisesForStatus(outcome.status) THEN Return(None)
    ELSE IF outcome.body = NotJson
         THEN IF jsonErrorCaught THEN Return(None) ELSE Raise("JSONDecodeError")
    ELSE Return(outcome.body)

-----------------------------------------------------------------------------
(* The inputs the callers choose.                                          *)

SeqsUpTo(S, n) == UNION {[1..k -> S] : k \in 0..n}

Facettes ==
    { [facette |-> "NOM_CODE", valeurs |-> <<"Code civil">>],
      [facette |-> "DATE_VERSION", valeurs |-> <<"2020-01-01">>] }

\* filtres: omitted (None), or a list of at most MaxFiltres filters.
FiltresArgs == {None} \cup {List(l) : l \in SeqsUpTo(Facettes, MaxFiltres)}

\* query: omitted (None), the empty string, or a text.
QueryArgs == {None, Str(""), Str("mariage")}

\* token: omitted (None), the empty string, or a token fetched beforehand.
TokenArgs == {None, Str(""), Str("tokC")}

\* The arguments of recherche_legifrance (lines 92-102); the first record
\* of DefaultArgs holds the defaults of the signature.
DefaultArgs ==
    [ query |-> None, type_champ |-> "ALL", type_recherche |-> "EXACTE",
      fond |-> "LEGI_ARTICLE", filtres |-> None, page |-> 1, page_size |-> 10,
      tri |-> "PERTINENCE", token |-> None ]

RechercheArgs ==
    [ query : QueryArgs,
      type_champ : {"ALL", "NUM_ARTICLE"},
      type_recherche : {"EXACTE", "APPROXIMATIVE"},
      fond : {"LEGI_ARTICLE", "JURI_DATE"},
      filtres : FiltresArgs,
      page : {1, 2},
      page_size : {10, 15},
      tri : {"PERTINENCE", "DATE"},
      token : TokenArgs ]

\* Raw records given to the extractor: every subset of nature, date and id
\* with every shape of titles, and the shapes of sections.
TitlesShapes ==
    { << >>,
      <<EmptyDict>>,
      <<[title |-> "Code civil"]>>,
      <<[title |-> "Code civil", id |-> "TITLE-1"]>> }

SectionsShapes ==
    { <<EmptyDict>>,
      <<[extracts |-> <<EmptyDict>>]>>,
      << [extracts |-> <<[num |-> "L1", values |-> << >>, id |-> "EX-1"]>>],
         [extracts |-> <<[num |-> "L2", values |-> <<"texte a", "texte b">>]>>] >> }

HeaderOf(keys) ==
    [k \in keys |-> CASE k = "nature" -> "LOI"
                      [] k = "date" -> "2020-01-01"
                      [] k = "id" -> "REC-1"]

HeaderRecords ==
    LET plain == {HeaderOf(keys) : keys \in SUBSET {"nature", "date", "id"}}
    IN  plain \cup {[titles |-> t] @@ h : t \in TitlesShapes, h \in plain}

SectionsRecords ==
    {[sections |-> s] @@ h :
        s \in SectionsShapes,
        h \in {EmptyDict, HeaderOf({"nature", "date", "id"})}}

Records == HeaderRecords \cup SectionsRecords

\* The arguments of extraire_resultats: None, the empty dict, a dict
\* without "results", and dicts with a "results" list.
ExtractInputs ==
    {None, Dict(EmptyDict), Dict([message |-> Str("Unauthorized")])}
    \cup {Dict([results |-> l]) : l \in SeqsUpTo(Records, MaxRecords)}

-----------------------------------------------------------------------------
(* The state machine: one invocation of one of the three functions, the    *)
(* search being followed by the extraction of its result (lines 238-239).  *)

InitCommon ==
    /\ headers = None
    /\ payload = None
    /\ sent = << >>
    /\ response = NoResponse
    /\ result = Pending
    /\ extraits = Pending

\* A caller invokes obtenir_token_legifrance() or recherche_legifrance(...).
Init ==
    /\ InitCommon
    /\ call \in {"obtenir_token_legifrance", "recherche_legifrance"}
    /\ IF call = "obtenir_token_legifrance"
       THEN args = DefaultArgs /\ pc = "token"
       ELSE args \in RechercheArgs /\ pc = "auth"
    /\ token = args.token
    /\ resultats = None

\* A caller invokes extraire_resultats(resultats).
InitExtraction ==
    /\ InitCommon
    /\ call = "extraire_resultats"
    /\ args = DefaultArgs
    /\ pc = "extract"
    /\ token = None
    /\ resultats \in ExtractInputs

\* obtenir_token_legifrance(), called directly (lines 15-36).
ObtenirToken ==
    /\ pc = "token"
    /\ \E outcome \in TokenOutcomes :
          /\ sent' = Append(sent, TokenRequest)
          /\ response' = outcome
          /\ result' = ObtenirTokenLegifrance(outcome)
    /\ pc' = "done"
    /\ UNCHANGED <<call, args, token, headers, payload, resultats, extraits>>

\* A variant that fetches a token whether or not the caller supplied one.
RechercheAuth_AlwaysFetch ==
    /\ pc = "auth"
    /\ \E outcome \in TokenOutcomes :
          LET r == ObtenirTokenLegifrance(outcome)
          IN  /\ sent' = Append(sent, TokenRequest)
              /\ IF r.kind = "raise"
                 THEN result' = r /\ pc' = "done" /\ token' = token
                 ELSE result' = result /\ pc' = "build" /\ token' = r.value
    /\ UNCHANGED <<call, args, headers, payload, response, resultats, extraits>>

\* A variant that gives up when no token was obtained, as test_ping_api
\* does (lines 42-43).
RechercheAuth_GiveUpWithoutToken ==
    /\ pc = "auth"
    /\ IF ~Truthy(token)
       THEN \E outcome \in TokenOutcomes :
               LET r == ObtenirTokenLegifrance(outcome)
               IN  /\ sent' = Append(sent, TokenRequest)
                   /\ IF r.kind = "raise"
                      THEN result' = r /\ pc' = "done" /\ token' = token
                      ELSE IF ~Truthy(r.value)
                      THEN result' = Return(None) /\ pc' = "returned" /\ token' = r.value
                      ELSE result' = result /\ pc' = "build" /\ token' = r.value
       ELSE pc' = "build" /\ UNCHANGED <<sent, result, token>>
    /\ UNCHANGED <<call, args, headers, payload, response, resultats, extraits>>

\* Lines 120-121: if not token: token = obtenir_token_legifrance().  An
\* exception of the nested call ends recherche_legifrance, since the call is
\* outside the try block of line 162.
RechercheAuth ==
    /\ pc = "auth"
    /\ IF ~Truthy(token)
       THEN \E outcome \in TokenOutcomes :
               LET r == ObtenirTokenLegifrance(outcome)
               IN  /\ sent' = Append(sent, TokenRequest)
                   /\ IF r.kind = "raise"
                      THEN result' = r /\ pc' = "done" /\ token' = token
                      ELSE result' = result /\ pc' = "build" /\ token' = r.value
       ELSE pc' = "build" /\ UNCHANGED <<sent, result, token>>
    /\ UNCHANGED <<call, args, headers, payload, response, resultats, extraits>>

\* Lines 123-159: the headers and the payload.
RechercheBuild ==
    /\ pc = "build"
    /\ headers' = Headers(token)
    /\ payload' = Payload(args)
    /\ pc' = "send"
    /\ UNCHANGED <<call, args, token, sent, response, result, resultats, extraits>>

\* Lines 161-170: the one post, inside try, and what is made of its outcome.
RechercheSend ==
    /\ pc = "send"
    /\ \E outcome \in SearchOutcomes, jsonErrorCaught \in BOOLEAN :
          /\ sent' = Append(sent, SearchRequest(headers, payload))
          /\ response' = outcome
          /\ result' = SearchResult(outcome, jsonErrorCaught)
    /\ pc' = IF result'.kind = "return" THEN "returned" ELSE "done"
    /\ UNCHANGED <<call, args, token, headers, payload, resultats, extraits>>

\* The caller passes the result of the search to extraire_resultats
\* (lines 238-239).
ExtrairePipeline ==
    /\ pc = "returned"
    /\ resultats' = result.value
    /\ extraits' = ExtraireResultats(result.value)
    /\ pc' = "done"
    /\ UNCHANGED <<call, args, token, headers, payload, sent, response, result>>

\* extraire_resultats(resultats), called directly (lines 202-229).
Extraire ==
    /\ pc = "extract"
    /\ extraits' = ExtraireResultats(resultats)
    /\ pc' = "done"
    /\ UNCHANGED <<call, args, token, headers, payload, sent, response, result,
                   resultats>>

Next ==
    \/ ObtenirToken
    \/ RechercheAuth
    \/ RechercheBuild
    \/ RechercheSend
    \/ ExtrairePipeline

Spec == Init /\ [][Next]_vars

NextExtraction == Extraire

SpecExtraction == InitExtraction /\ [][NextExtraction]_vars

-----------------------------------------------------------------------------
(* Vocabulary of the properties.                                           *)

\* The invoked function has ended, by a return or by an exception.
Ended == result.kind # "pending"

\* The invocation of recherche_legifrance has sent its search request,
\* which is then the last request sent.
SearchSent ==
    /\ call = "recherche_legifrance"
    /\ sent # << >>
    /\ sent[Len(sent)].url = SearchUrl

SentPayload == sent[Len(sent)].json

\* recherche_legifrance has built its payload (lines 130-159).
PayloadBuilt == call = "recherche_legifrance" /\ payload # None

CountSent(url) ==
    Cardinality({i \in 1..Len(sent) : sent[i].url = url})

\* The bearer header of the search request sent.
SentAuthorization == sent[Len(sent)].headers["Authorization"]

\* The search request failed: a network-level error, or a 4xx/5xx status.
SearchFailed ==
    /\ SearchSent
    /\ \/ response.kind = "error"
       \/ response.kind = "response" /\ response.status \in 400..599

\* The search request succeeded: a 2xx status with a JSON body.
SearchSucceeded ==
    /\ SearchSent
    /\ response.kind = "response"
    /\ response.status \in 200..299
    /\ response.body # NotJson

\* The argument of extraire_resultats has a "results" list.
HasResults == resultats.t = "dict" /\ "results" \in DOMAIN resultats.v

-----------------------------------------------------------------------------
(* C1: no exception propagates past obtenir_token_legifrance and           *)
(* recherche_legifrance: whatever the HTTP requests answer, the invoked    *)
(* function ends by returning a value or None, never by raising.           *)
C1_NoExceptionPropagates ==
    (call \in {"obtenir_token_legifrance", "recherche_legifrance"} /\ Ended)
        => result.kind = "return"

(* C2: obtenir_token_legifrance returns exactly the access_token of the    *)
(* body when the endpoint answers 200 with a JSON object holding           *)
(* access_token, and returns None, without raising, on any other status.   *)
C2_TokenAcquisition ==
    (call = "obtenir_token_legifrance" /\ Ended /\ response.kind = "response")
        => /\ ( /\ response.status = 200
                /\ response.body.t = "dict"
                /\ "access_token" \in DOMAIN response.body.v )
              => result = [kind |-> "return", value |-> response.body.v.access_token]
           /\ response.status # 200
              => result = [kind |-> "return", value |-> None]

\* C2's case: a 200 answer with an access_token, returned to the caller.
C2_Witness ==
    /\ call = "obtenir_token_legifrance"
    /\ response.kind = "response" /\ response.status = 200
    /\ result = [kind |-> "return", value |-> Str("tokT")]

\* The payload has no free-text search block.
NoFreeTextBlock(rech) ==
    "champs" \notin DOMAIN rech /\ "operateur" \notin DOMAIN rech

\* The payload has exactly one field block holding exactly one criterion,
\* made of the given query, type_champ and type_recherche.
OneFieldCriterion(rech, a) ==
    /\ "champs" \in DOMAIN rech
    /\ rech.champs.t = "list"
    /\ Len(rech.champs.v) = 1
    /\ rech.champs.v[1].typeChamp = a.type_champ
    /\ Len(rech.champs.v[1].criteres) = 1
    /\ rech.champs.v[1].criteres[1].valeur = a.query.v
    /\ rech.champs.v[1].criteres[1].typeRecherche = a.type_recherche

\* pageNumber, pageSize, sort and fond are present, with the given values.
PaginationSortFond(p, a) ==
    /\ {"pageNumber", "pageSize", "sort"} \subseteq DOMAIN p.recherche
    /\ p.recherche.pageNumber.v = a.page
    /\ p.recherche.pageSize.v = a.page_size
    /\ p.recherche.sort = Str(a.tri)
    /\ "fond" \in DOMAIN p
    /\ p.fond = a.fond

(* C3, as stated: when query is omitted the payload sent has no free-text  *)
(* block, and when a query is provided (any string) it has exactly one     *)
(* field block with one criterion of that query, type_champ and            *)
(* type_recherche; pagination, sort and fond are present in both cases.    *)
C3_PayloadAsStated ==
    PayloadBuilt
        => /\ args.query = None => NoFreeTextBlock(payload.recherche)
           /\ args.query # None => OneFieldCriterion(payload.recherche, args)
           /\ PaginationSortFond(payload, args)
           /\ SearchSent => SentPayload = payload

(* C3, amended: when query is omitted or is the empty string the payload   *)
(* sent has no free-text block, and when a non-empty query is provided it  *)
(* has exactly one field block with one criterion of that query,           *)
(* type_champ and type_recherche; pagination, sort and fond are present in *)
(* both cases.                                                             *)
C3_PayloadAmended ==
    PayloadBuilt
        => /\ (args.query = None \/ args.query = Str(""))
              => NoFreeTextBlock(payload.recherche)
           /\ (args.query # None /\ args.query # Str(""))
              => OneFieldCriterion(payload.recherche, args)
           /\ PaginationSortFond(payload, args)
           /\ SearchSent => SentPayload = payload

\* C3's case: a search sent with a query, field type and match mode that
\* are not the defaults, on the second page of another corpus.
C3_Witness ==
    /\ SearchSent
    /\ args.query = Str("mariage")
    /\ args.type_champ = "NUM_ARTICLE"
    /\ args.type_recherche = "APPROXIMATIVE"
    /\ args.page = 2 /\ args.fond = "JURI_DATE" /\ args.tri = "DATE"
    /\ "champs" \in DOMAIN payload.recherche

(* C4, as stated: whenever the caller provides a filter list, even an      *)
(* empty one, the payload's filtres entry equals that list unchanged; when *)
(* the caller omits filters the payload has no filtres key.                *)
C4_FiltersAsStated ==
    PayloadBuilt
        => /\ args.filtres # None
              => /\ "filtres" \in DOMAIN payload.recherche
                 /\ payload.recherche.filtres = args.filtres
           /\ args.filtres = None
              => "filtres" \notin DOMAIN payload.recherche
           /\ SearchSent => SentPayload = payload

(* C4, amended: whenever the caller provides a non-empty filter list, the  *)
(* payload's filtres entry equals that list unchanged; when the caller     *)
(* omits filters or provides an empty list, the payload has no filtres     *)
(* key.                                                                    *)
C4_FiltersAmended ==
    PayloadBuilt
        => /\ (args.filtres # None /\ args.filtres # List(<< >>))
              => /\ "filtres" \in DOMAIN payload.recherche
                 /\ payload.recherche.filtres = args.filtres
           /\ (args.filtres = None \/ args.filtres = List(<< >>))
              => "filtres" \notin DOMAIN payload.recherche
           /\ SearchSent => SentPayload = payload

\* C4's case: a search sent with a list of two different filters.
C4_Witness ==
    /\ SearchSent
    /\ args.filtres.t = "list"
    /\ Len(args.filtres.v) = 2
    /\ args.filtres.v[1] # args.filtres.v[2]
    /\ "filtres" \in DOMAIN payload.recherche

\* The item the extractor is documented to build for one raw record, each
\* field defaulted on its own: the expected value of lines 209-215.
FirstTitle(r) ==
    IF "titles" \in DOMAIN r /\ r.titles # << >> THEN r.titles[1] ELSE EmptyDict

ExpectedId(r) ==
    IF "id" \in DOMAIN r THEN Str(r.id)
    ELSE IF "id" \in DOMAIN FirstTitle(r) THEN Str(FirstTitle(r).id)
    ELSE None

\* The extracts of a record, section after section.
AllExtracts(r) ==
    IF "sections" \notin DOMAIN r THEN << >>
    ELSE LET secs == r.sections
             F[i \in 0..Len(secs)] ==
                 IF i = 0 THEN << >>
                 ELSE F[i - 1] \o (IF "extracts" \in DOMAIN secs[i]
                                   THEN secs[i].extracts ELSE << >>)
         IN  F[Len(secs)]

(* C5: extraire_resultats raises no error for malformed records: for every *)
(* response with a results list, whatever fields each record has and       *)
(* whatever their shape (titles present but empty, with or without an id), *)
(* extraction completes, with an item for each record.                     *)
C5_NoErrorOnMalformedRecords ==
    (pc = "done" /\ HasResults)
        => /\ extraits.kind = "return"
           /\ Len(extraits.value.v) = Len(resultats.v.results)

(* C6: for a response with a results list, extraire_resultats returns one  *)
(* item per raw record, in the same order; a missing titles yields the     *)
(* title 'Sans titre', a missing nature 'Non spécifiée', a missing date    *)
(* 'Date inconnue', a missing id (with no titles) None, each independently *)
(* of the other fields; no sections yields no excerpt, and an extract with *)
(* no values (missing or empty) yields an excerpt whose text is "".        *)
C6_ItemPerRecordWithDefaults ==
    (pc = "done" /\ HasResults)
        => /\ extraits.kind = "return"
           /\ Len(extraits.value.v) = Len(resultats.v.results)
           /\ \A i \in 1..Len(resultats.v.results) :
                 LET r == resultats.v.results[i]
                     item == extraits.value.v[i]
                 IN  /\ "titles" \notin DOMAIN r => item.titre = "Sans titre"
                     /\ item.nature = (IF "nature" \in DOMAIN r THEN r.nature
                                       ELSE "Non spécifiée")
                     /\ item.date = (IF "date" \in DOMAIN r THEN r.date
                                     ELSE "Date inconnue")
                     /\ ("id" \notin DOMAIN r /\ "titles" \notin DOMAIN r)
                           => item.id = None
                     /\ "sections" \notin DOMAIN r => item.extraits = << >>
                     /\ Len(item.extraits) = Len(AllExtracts(r))
                     /\ \A j \in 1..Len(AllExtracts(r)) :
                           LET e == AllExtracts(r)[j]
                           IN  ("values" \notin DOMAIN e \/ e.values = << >>)
                                   => item.extraits[j].texte = ""

(* C7: extraire_resultats returns an empty list whenever its input is None *)
(* (what a failed search returns), empty, or a response without a results  *)
(* key; so the result of any failed search, fed to the extractor, yields   *)
(* an empty list and no error.                                             *)
C7_EmptyListWithoutResults ==
    (call = "recherche_legifrance" /\ pc = "done")
        => /\ ( /\ result.kind = "return"
                /\ \/ result.value = None
                   \/ result.value = Dict(EmptyDict)
                   \/ result.value.t = "dict" /\ "results" \notin DOMAIN result.value.v )
              => (resultats = result.value /\ extraits = Return(List(<< >>)))
           /\ SearchFailed
              => (resultats = None /\ extraits = Return(List(<< >>)))

\* C7's case: a search that failed, its result fed to the extractor.
C7_Witness ==
    /\ call = "recherche_legifrance" /\ pc = "done"
    /\ SearchFailed
    /\ response.kind = "response" /\ response.status = 404
    /\ resultats = None
    /\ extraits = Return(List(<< >>))

\* Every token request is sent before every search request.
TokenBeforeSearch ==
    \A i, j \in 1..Len(sent) :
        (sent[i].url = LEGIFRANCE_OAUTH_URL /\ sent[j].url = SearchUrl) => i < j

AuthReturnedNone ==
    /\ call = "recherche_legifrance"
    /\ args.token = None
    /\ CountSent(LEGIFRANCE_OAUTH_URL) = 1
    /\ token = None
    /\ ~(result.kind = "raise" /\ CountSent(SearchUrl) = 0)

(* C9: authentication failure does not short-circuit the search: when      *)
(* recherche_legifrance is called without a token and the token            *)
(* acquisition returns None, the search request is still sent, with the    *)
(* bearer header made of None, and the result is decided by the search     *)
(* request alone: None if it fails, the parsed JSON if it succeeds.        *)
C9_AuthFailureStillSearches ==
    (AuthReturnedNone /\ pc \in {"returned", "done"})
        => /\ CountSent(SearchUrl) = 1
           /\ sent[Len(sent)].url = SearchUrl
           /\ SentAuthorization = "Bearer None"
           /\ SearchFailed => result = Return(None)
           /\ SearchSucceeded => result = Return(response.body)

\* C9's case: no token from the endpoint, and yet a search that succeeds.
C9_Witness ==
    /\ AuthReturnedNone
    /\ SearchSucceeded
    /\ SentAuthorization = "Bearer None"
    /\ result = Return(Dict([results |-> <<RecordLoi>>]))

(* C10: id precedence in extraire_resultats: for every record the          *)
(* extracted id is the record's top-level id whenever the record has one,  *)
(* even when the first entry of titles carries an id too; the id of the    *)
(* first titles entry is used only without a top-level id, and the id is   *)
(* None when neither exists.                                               *)
C10_IdPrecedence ==
    (pc = "done" /\ HasResults)
        => /\ extraits.kind = "return"
           /\ \A i \in 1..Len(resultats.v.results) :
                 extraits.value.v[i].id = ExpectedId(resultats.v.results[i])

=============================================================================
